---- MODULE Spec2Model ----
(***************************************************************************)
(* Model of rwse_checker/rwse.py: the RWSE_Checker class.                   *)
(*                                                                         *)
(* Python strings are modelled as sequences of one-character strings, so   *)
(* that strip(), the substring test `MASK in sentence`, str.replace() and  *)
(* ' '.join() are computed character by character.  Scores are rationals   *)
(* with denominator ScoreOne, magnitudes rationals with denominator MagDen.*)
(* The fill-mask pipeline (self.pipe) is an external collaborator: its     *)
(* answer to a call is a nondeterministic choice.                          *)
(***************************************************************************)
EXTENDS Integers, Sequences, FiniteSets, TLC

VARIABLES
    confusion_sets,  \* self.confusion_sets: word -> list of words (a dict)
    mask_token,      \* self.__mask_token
    op,              \* the operation performed last
    args,            \* the arguments of that operation
    ret,             \* the value it returned: [type, value]
    exc,             \* the exception it raised, or "none"
    pipe_calls       \* the invocations of self.pipe made by that operation

vars == <<confusion_sets, mask_token, op, args, ret, exc, pipe_calls>>

----------------------------------------------------------------------------
(* Bounds of the model *)

MaxGroups == 2      \* number of groups in the constructor's list
MaxGroupLen == 2    \* number of raw items in one group
MaxTokens == 2      \* length of the token list given to check_sentence
MaxScore == 3       \* largest score numerator the pipeline returns
ScoreOne == 2       \* the score 1.0, in score units (scores are n / ScoreOne)
MagDen == 2         \* denominator of the magnitudes (magnitudes are n / MagDen)

----------------------------------------------------------------------------
(* Strings *)

MASK == <<"_", "_", "M", "A", "S", "K", "_", "_">>

BertMask == <<"[", "M", "A", "S", "K", "]">>
RobertaMask == <<"<", "m", "a", "s", "k", ">">>
MaskTokens == {BertMask, RobertaMask}

their == <<"t", "h", "e", "i", "r">>
there == <<"t", "h", "e", "r", "e">>
to == <<"t", "o">>
too == <<"t", "o", "o">>
two == <<"t", "w", "o">>
buy == <<"b", "u", "y">>

None == [type |-> "None", value |-> <<>>]

Range(s) == {s[i] : i \in 1..Len(s)}

SeqsUpTo(S, n) == UNION {[1..k -> S] : k \in 0..n}

IsSpace(c) == c = " "

RECURSIVE LStrip(_)
LStrip(s) ==
    IF s # <<>> /\ IsSpace(s[1]) THEN LStrip(Tail(s)) ELSE s

RECURSIVE RStrip(_)
RStrip(s) ==
    IF s # <<>> /\ IsSpace(s[Len(s)]) THEN RStrip(SubSeq(s, 1, Len(s) - 1)) ELSE s

\* str.strip()
Strip(s) == RStrip(LStrip(s))

\* `sub in s` for strings
Contains(s, sub) ==
    \E i \in 0..(Len(s) - Len(sub)) : SubSeq(s, i + 1, i + Len(sub)) = sub

\* s.replace(old, new): every non-overlapping occurrence, leftmost first
RECURSIVE Replace(_, _, _)
Replace(s, old, new) ==
    IF Len(s) < Len(old) THEN s
    ELSE IF SubSeq(s, 1, Len(old)) = old
         THEN new \o Replace(SubSeq(s, Len(old) + 1, Len(s)), old, new)
         ELSE <<s[1]>> \o Replace(Tail(s), old, new)

\* ' '.join(words)
RECURSIVE Join(_)
Join(words) ==
    IF words = <<>> THEN <<>>
    ELSE IF Len(words) = 1 THEN words[1]
    ELSE words[1] \o <<" ">> \o Join(Tail(words))

----------------------------------------------------------------------------
(* Registry construction *)

\* [item.strip() for item in conf_set if item.strip()]
RECURSIVE CleanedSet(_)
CleanedSet(conf_set) ==
    IF conf_set = <<>> THEN <<>>
    ELSE IF Strip(conf_set[1]) # <<>>
         THEN <<Strip(conf_set[1])>> \o CleanedSet(Tail(conf_set))
         ELSE CleanedSet(Tail(conf_set))

\* _process_confusion_set: the dict {word: cleaned_set}, or the ValueError
ProcessConfusionSet(conf_set) ==
    LET cleaned_set == CleanedSet(conf_set) IN
    IF Len(cleaned_set) < 2
    THEN [exc |-> "ValueError", dict |-> <<>>]
    ELSE [exc |-> "none", dict |-> [word \in Range(cleaned_set) |-> cleaned_set]]

\* dict.update done wrongly: a key already present keeps its value
M_DictUpdateKeepFirst(d, e) ==
    [w \in (DOMAIN d) \cup (DOMAIN e) |-> IF w \in DOMAIN d THEN d[w] ELSE e[w]]

\* dict.update
DictUpdate(d, e) ==
    [w \in (DOMAIN d) \cup (DOMAIN e) |-> IF w \in DOMAIN e THEN e[w] ELSE d[w]]

\* _load_confusion_sets, list branch: the loop from group i on, with `result`
RECURSIVE LoadFrom(_, _, _)
LoadFrom(data, i, result) ==
    IF i > Len(data) THEN [exc |-> "none", dict |-> result]
    ELSE LET p == ProcessConfusionSet(data[i]) IN
         IF p.exc # "none" THEN [exc |-> p.exc, dict |-> <<>>]
         ELSE LoadFrom(data, i + 1, DictUpdate(result, p.dict))

LoadConfusionSets(data) == LoadFrom(data, 1, <<>>)

\* Raw items of a group as a caller or a CSV row supplies them
RawItems == {<<"a">>, <<"b">>, <<" ", "c", " ">>, <<" ">>}

Groups == SeqsUpTo(RawItems, MaxGroupLen)

DataInputs == SeqsUpTo(Groups, MaxGroups)

\* The object before __init__ has run, with the list handed to it
InitBuild ==
    /\ confusion_sets = <<>>
    /\ mask_token = <<>>
    /\ op = "new"
    /\ args \in [confusion_sets : DataInputs]
    /\ ret = None
    /\ exc = "none"
    /\ pipe_calls = <<>>

\* __init__: load the confusion sets, then take the tokenizer's mask token
Construct ==
    /\ op = "new"
    /\ LET loaded == LoadConfusionSets(args.confusion_sets) IN
       IF loaded.exc # "none"
       THEN /\ exc' = loaded.exc
            /\ UNCHANGED <<confusion_sets, mask_token>>
       ELSE /\ exc' = "none"
            /\ confusion_sets' = loaded.dict
            /\ mask_token' \in MaskTokens
    /\ op' = "__init__"
    /\ UNCHANGED <<args, ret, pipe_calls>>

NextBuild == Construct

SpecBuild == InitBuild /\ [][NextBuild]_vars

----------------------------------------------------------------------------
(* The fill-mask pipeline *)

Scores == 0..MaxScore

ResultEntries(targets) == [token_str : Range(targets), score : Scores]

\* What self.pipe may answer to check and correct: any list of scored
\* targets no longer than the target list, in any order
PipeResults(targets) == SeqsUpTo(ResultEntries(targets), Len(targets))

\* An answer of self.pipe with one entry per target, in the order of the
\* targets, scored by the first Len(targets) entries of scores
PipeRanked(targets, scores) ==
    [j \in 1..Len(targets) |-> [token_str |-> targets[j], score |-> scores[j]]]

----------------------------------------------------------------------------
(* check *)

\* in_confusion_sets
InConfusionSets(cs, token) == token \in DOMAIN cs

\* replace_generic_mask without the test for the placeholder
M_ReplaceGenericMaskNoTest(mt, sentence) ==
    [exc |-> "none", value |-> Replace(sentence, MASK, mt)]

\* replace_generic_mask: the sentence for the pipeline, or the ValueError
ReplaceGenericMask(mt, sentence) ==
    IF ~Contains(sentence, MASK)
    THEN [exc |-> "ValueError", value |-> <<>>]
    ELSE [exc |-> "none", value |-> Replace(sentence, MASK, mt)]

\* check without the membership test: self.pipe is asked about every token
M_CheckOutcomeNoMembership(cs, mt, token, masked_sentence, results) ==
    LET replaced == ReplaceGenericMask(mt, masked_sentence)
        targets == IF InConfusionSets(cs, token) THEN cs[token] ELSE <<>>
    IN  IF replaced.exc # "none"
        THEN [exc |-> replaced.exc, ret |-> None, calls |-> <<>>]
        ELSE [exc |-> "none",
              ret |-> [type |-> "list", value |-> results],
              calls |-> <<[masked_sentence |-> masked_sentence,
                           sentence |-> replaced.value,
                           targets |-> targets,
                           results |-> results]>>]

\* check: its outcome [exc, ret, calls], `results` being what self.pipe
\* answers if it is called.  A call of self.pipe is logged with the sentence
\* and targets it was given, its answer, and the sentence check was given
CheckOutcome(cs, mt, token, masked_sentence, results) ==
    IF ~InConfusionSets(cs, token)
    THEN [exc |-> "none", ret |-> [type |-> "list", value |-> <<>>], calls |-> <<>>]
    ELSE LET replaced == ReplaceGenericMask(mt, masked_sentence) IN
         IF replaced.exc # "none"
         THEN [exc |-> replaced.exc, ret |-> None, calls |-> <<>>]
         ELSE [exc |-> "none",
               ret |-> [type |-> "list", value |-> results],
               calls |-> <<[masked_sentence |-> masked_sentence,
                            sentence |-> replaced.value,
                            targets |-> cs[token],
                            results |-> results]>>]

\* The answers self.pipe can give to check(token, ...)
AnswersFor(cs, token) ==
    IF InConfusionSets(cs, token) THEN PipeResults(cs[token]) ELSE {<<>>}

----------------------------------------------------------------------------
(* correct *)

DefaultMagnitude == 10

\* Magnitudes, as numerators over MagDen: -1, 0, 1/MagDen, 1 and the default
Magnitudes == {0 - MagDen, 0, 1, MagDen, DefaultMagnitude * MagDen}

Min(a, b) == IF a <= b THEN a ELSE b

\* The first result whose token_str is the token, 0 when there is none
RECURSIVE TargetIndex(_, _, _)
TargetIndex(results, token, i) ==
    IF i > Len(results) THEN 0
    ELSE IF results[i].token_str = token THEN i
    ELSE TargetIndex(results, token, i + 1)

\* The threshold test with >= in place of >
M_AboveThresholdGeq(score, target_score, magnitude) ==
    score * MagDen >= Min(target_score * magnitude, ScoreOne * MagDen)

\* The threshold test with the magnitude multiplied into the wrong side
M_AboveThresholdWrongSide(score, target_score, magnitude) ==
    score * magnitude > Min(target_score * MagDen, ScoreOne * MagDen)

\* score > min(target_score * magnitude, 1.0), in units of 1/(ScoreOne*MagDen)
AboveThreshold(score, target_score, magnitude) ==
    score * MagDen > Min(target_score * magnitude, ScoreOne * MagDen)

\* The loop over results from entry i on, with best_token and best_score
RECURSIVE BestFrom(_, _, _, _, _, _, _)
BestFrom(results, token, target_score, magnitude, i, best_token, best_score) ==
    IF i > Len(results) THEN best_token
    ELSE LET candidate == results[i].token_str
             score == results[i].score
         IN  IF /\ candidate # token
                /\ AboveThreshold(score, target_score, magnitude)
                /\ score > best_score
             THEN BestFrom(results, token, target_score, magnitude, i + 1, candidate, score)
             ELSE BestFrom(results, token, target_score, magnitude, i + 1, best_token, best_score)

\* correct with best_score starting below every score instead of at the
\* score of the token
M_CorrectDecisionNoSelf(token, results, magnitude) ==
    IF results = <<>> THEN token
    ELSE LET t == TargetIndex(results, token, 1) IN
         IF t = 0 THEN token
         ELSE BestFrom(results, token, results[t].score, magnitude, 1, token, -1)

\* correct, after the call of check: the token it returns
CorrectDecision(token, results, magnitude) ==
    IF results = <<>> THEN token
    ELSE LET t == TargetIndex(results, token, 1) IN
         IF t = 0 THEN token
         ELSE BestFrom(results, token, results[t].score, magnitude, 1,
                       token, results[t].score)

----------------------------------------------------------------------------
(* check_sentence *)

\* [MASK if t == token else t for t in tokens]
MaskedTokens(tokens, token) ==
    [j \in 1..Len(tokens) |-> IF tokens[j] = token THEN MASK ELSE tokens[j]]

\* check_sentence without the membership test of its loop: check is called
\* for every position and its result appended
RECURSIVE M_SentenceOutcomeNoFilter(_, _, _, _, _)
M_SentenceOutcomeNoFilter(cs, mt, tokens, i, answers) ==
    IF i > Len(tokens)
    THEN [exc |-> "none", ret |-> [type |-> "list", value |-> <<>>], calls |-> <<>>]
    ELSE LET member == InConfusionSets(cs, tokens[i])
             masked_sentence == Join(MaskedTokens(tokens, tokens[i]))
             o == CheckOutcome(cs, mt, tokens[i], masked_sentence,
                    IF member THEN PipeRanked(cs[tokens[i]], Head(answers)) ELSE <<>>)
         IN  IF o.exc # "none"
             THEN [exc |-> o.exc, ret |-> None, calls |-> o.calls]
             ELSE LET r == M_SentenceOutcomeNoFilter(cs, mt, tokens, i + 1,
                              IF member THEN Tail(answers) ELSE answers)
                  IN  [exc |-> r.exc,
                       ret |-> IF r.exc # "none" THEN None
                               ELSE [type |-> "list",
                                     value |-> <<o.ret.value>> \o r.ret.value],
                       calls |-> o.calls \o r.calls]

\* check_sentence: the outcome [exc, ret, calls] of the loop from position i
\* on, answers[k] scoring the targets of the k-th call of self.pipe from here;
\* an exception of check ends the loop and leaves check_sentence
RECURSIVE SentenceOutcome(_, _, _, _, _)
SentenceOutcome(cs, mt, tokens, i, answers) ==
    IF i > Len(tokens)
    THEN [exc |-> "none", ret |-> [type |-> "list", value |-> <<>>], calls |-> <<>>]
    ELSE IF ~InConfusionSets(cs, tokens[i])
    THEN SentenceOutcome(cs, mt, tokens, i + 1, answers)
    ELSE LET masked_sentence == Join(MaskedTokens(tokens, tokens[i]))
             o == CheckOutcome(cs, mt, tokens[i], masked_sentence,
                               PipeRanked(cs[tokens[i]], Head(answers)))
         IN  IF o.exc # "none"
             THEN [exc |-> o.exc, ret |-> None, calls |-> o.calls]
             ELSE LET r == SentenceOutcome(cs, mt, tokens, i + 1, Tail(answers)) IN
                  [exc |-> r.exc,
                   ret |-> IF r.exc # "none" THEN None
                           ELSE [type |-> "list",
                                 value |-> <<o.ret.value>> \o r.ret.value],
                   calls |-> o.calls \o r.calls]

\* The positions of tokens that hold a member of a confusion set
MemberPositions(cs, tokens) ==
    {i \in 1..Len(tokens) : InConfusionSets(cs, tokens[i])}

\* The longest target list a call of check_sentence(tokens) hands to self.pipe
MaxTargets(cs, tokens) ==
    LET lens == {Len(cs[tokens[i]]) : i \in MemberPositions(cs, tokens)} IN
    IF lens = {} THEN 0 ELSE CHOOSE n \in lens : \A m \in lens : m <= n

\* The score vectors self.pipe can answer with, one per call it gets
SentenceAnswers(cs, tokens) ==
    [1..Cardinality(MemberPositions(cs, tokens)) ->
        [1..MaxTargets(cs, tokens) -> Scores]]

----------------------------------------------------------------------------
(* The checker in use *)

\* The confusion sets of the tests and the example
SampleData == <<<<their, there>>, <<to, too, two>>>>

\* Tokens a caller asks about: the members and a word of no confusion set
Tokens == {their, there, to, too, two, buy}

\* Sentences a caller passes to check and correct
Sentences ==
    { Join(<<to, MASK, their>>),
      Join(<<MASK, buy, MASK>>),
      Join(<<to, buy, their>>),
      SubSeq(MASK, 1, Len(MASK) - 1),
      <<>> }

\* Words of the token lists given to check_sentence
SentenceWords == {their, there, buy}

TokenLists == SeqsUpTo(SentenceWords, MaxTokens)

\* The checker right after a successful __init__
Init ==
    /\ confusion_sets = LoadConfusionSets(SampleData).dict
    /\ mask_token \in MaskTokens
    /\ op = "__init__"
    /\ args = [confusion_sets |-> SampleData]
    /\ ret = None
    /\ exc = "none"
    /\ pipe_calls = <<>>

\* No call is in progress and none has left a result to be read
Idle == op \in {"__init__", "idle"}

Check ==
    /\ Idle
    /\ \E token \in Tokens, masked_sentence \in Sentences :
       \E results \in AnswersFor(confusion_sets, token) :
       LET o == CheckOutcome(confusion_sets, mask_token, token, masked_sentence, results) IN
          /\ op' = "check"
          /\ args' = [token |-> token, masked_sentence |-> masked_sentence]
          /\ ret' = o.ret
          /\ exc' = o.exc
          /\ pipe_calls' = o.calls
          /\ UNCHANGED <<confusion_sets, mask_token>>

Correct ==
    /\ Idle
    /\ \E token \in Tokens, masked_sentence \in Sentences, magnitude \in Magnitudes :
       \E results \in AnswersFor(confusion_sets, token) :
       LET o == CheckOutcome(confusion_sets, mask_token, token, masked_sentence, results) IN
          /\ op' = "correct"
          /\ args' = [token |-> token, masked_sentence |-> masked_sentence,
                      magnitude |-> magnitude]
          /\ exc' = o.exc
          /\ ret' = IF o.exc # "none" THEN None
                    ELSE [type |-> "str",
                          value |-> CorrectDecision(token, o.ret.value, magnitude)]
          /\ pipe_calls' = o.calls
          /\ UNCHANGED <<confusion_sets, mask_token>>

CheckSentence ==
    /\ Idle
    /\ \E tokens \in TokenLists :
       \E answers \in SentenceAnswers(confusion_sets, tokens) :
       LET o == SentenceOutcome(confusion_sets, mask_token, tokens, 1, answers) IN
          /\ op' = "check_sentence"
          /\ args' = [tokens |-> tokens]
          /\ ret' = o.ret
          /\ exc' = o.exc
          /\ pipe_calls' = o.calls
          /\ UNCHANGED <<confusion_sets, mask_token>>

\* The caller has read the result (or caught the exception) of a call and
\* goes on to its next call, as the example script does call after call
CallerContinues ==
    /\ op \in {"check", "correct", "check_sentence"}
    /\ op' = "idle"
    /\ args' = <<>>
    /\ ret' = None
    /\ exc' = "none"
    /\ pipe_calls' = <<>>
    /\ UNCHANGED <<confusion_sets, mask_token>>

Next == Check \/ Correct \/ CheckSentence \/ CallerContinues

Spec == Init /\ [][Next]_vars

----------------------------------------------------------------------------
(* Properties of correct *)

\* What check returned to correct
CheckResults == IF pipe_calls = <<>> THEN <<>> ELSE pipe_calls[1].results

\* correct has returned after self.pipe scored the token itself
CorrectScored ==
    /\ op = "correct"
    /\ exc = "none"
    /\ pipe_calls # <<>>
    /\ \E i \in 1..Len(CheckResults) : CheckResults[i].token_str = args.token

\* The self score: the score of the first result for the token
SelfScore ==
    LET first == CHOOSE i \in 1..Len(CheckResults) :
                    /\ CheckResults[i].token_str = args.token
                    /\ \A j \in 1..(i - 1) : CheckResults[j].token_str # args.token
    IN  CheckResults[first].score

\* e.score > min(self_score * magnitude, 1.0), over the common denominator
\* ScoreOne * MagDen
ExceedsThreshold(e) ==
    \/ e.score * MagDen > SelfScore * args.magnitude
    \/ e.score * MagDen > ScoreOne * MagDen

\* Results for another word that score above the threshold
Qualifying ==
    {i \in 1..Len(CheckResults) :
        /\ CheckResults[i].token_str # args.token
        /\ ExceedsThreshold(CheckResults[i])}

\* Those of them that also score above the token itself
QualifyingAboveSelf == {i \in Qualifying : CheckResults[i].score > SelfScore}

\* C1 as stated: correct returns a highest-scoring result among those for
\* another word with score > min(self_score * magnitude, 1.0), and the
\* original token when there is none.
C1_BestAboveThreshold ==
    CorrectScored =>
        IF Qualifying = {} THEN ret.value = args.token
        ELSE \E i \in Qualifying :
                /\ ret.value = CheckResults[i].token_str
                /\ \A j \in Qualifying : CheckResults[j].score <= CheckResults[i].score

\* C1 amended: correct returns the first highest-scoring result among those
\* for another word with score > min(self_score * magnitude, 1.0) and
\* score > self_score, and the original token when there is none.
C1_BestAboveThresholdAndSelf ==
    CorrectScored =>
        IF QualifyingAboveSelf = {} THEN ret.value = args.token
        ELSE \E i \in QualifyingAboveSelf :
                /\ ret.value = CheckResults[i].token_str
                /\ \A j \in QualifyingAboveSelf :
                      \/ CheckResults[j].score < CheckResults[i].score
                      \/ CheckResults[j].score = CheckResults[i].score /\ i <= j

\* A substitution at a magnitude <= 0 with two alternatives to choose from
C1_Witness ==
    /\ CorrectScored
    /\ args.magnitude <= 0
    /\ ret.value # args.token
    /\ Cardinality(QualifyingAboveSelf) >= 2
    /\ \E i, j \in QualifyingAboveSelf : CheckResults[i].score < CheckResults[j].score

\* C10: a token correct returns in place of the original is the word of a
\* result that scores strictly above the original token's own score and
\* strictly above min(self_score * magnitude, 1.0).
C10_SubstituteBeatsSelf ==
    (op = "correct" /\ exc = "none" /\ ret.value # args.token) =>
        /\ CorrectScored
        /\ \E i \in 1..Len(CheckResults) :
              /\ CheckResults[i].token_str = ret.value
              /\ CheckResults[i].score > SelfScore
              /\ ExceedsThreshold(CheckResults[i])

\* A substitution at a magnitude below 1, where the threshold lies below the
\* self score, while another result lies between the two and is not taken
C10_Witness ==
    /\ CorrectScored
    /\ args.magnitude < MagDen
    /\ SelfScore > 0
    /\ ret.value # args.token
    /\ \E i \in Qualifying : CheckResults[i].score <= SelfScore

\* C4: with the scores fixed, if correct keeps the token at a magnitude it
\* keeps it at every larger one, and if it substitutes at a magnitude it
\* substitutes at every smaller one.
C4_MagnitudeMonotone ==
    (op = "correct" /\ exc = "none") =>
        \A m2 \in Magnitudes :
            LET d2 == CorrectDecision(args.token, CheckResults, m2) IN
            /\ (args.magnitude <= m2 /\ ret.value = args.token) => d2 = args.token
            /\ (m2 <= args.magnitude /\ ret.value # args.token) => d2 # args.token

\* The token is kept at this magnitude although a smaller one substitutes
C4_Witness ==
    /\ CorrectScored
    /\ ret.value = args.token
    /\ \E m1 \in Magnitudes :
          /\ m1 < args.magnitude
          /\ CorrectDecision(args.token, CheckResults, m1) # args.token

\* C5: correct returns a triple of chosen token, certainty and candidate
\* list; after a substitution the certainty is candidate_score / self_score,
\* and for a token of no confusion set it is the original token with no
\* certainty.
C5_DecisionTriple ==
    (op = "correct" /\ exc = "none") =>
        /\ ret.type = "tuple"
        /\ Len(ret.value) = 3
        /\ ret.value[3] = CheckResults
        /\ (args.token \notin DOMAIN confusion_sets) =>
              (ret.value[1] = args.token /\ ret.value[2] = None)
        /\ (ret.value[1] # args.token) =>
              \E i \in 1..Len(CheckResults) :
                 /\ CheckResults[i].token_str = ret.value[1]
                 /\ ret.value[2] = <<CheckResults[i].score, SelfScore>>

----------------------------------------------------------------------------
(* Properties of check *)

\* C2: check of a token that is no key of the registry returns the empty
\* list and self.pipe is not called.
C2_MissSkipsPipe ==
    (op = "check" /\ args.token \notin DOMAIN confusion_sets) =>
        /\ exc = "none"
        /\ ret = [type |-> "list", value |-> <<>>]
        /\ pipe_calls = <<>>

\* check of a non-member with a sentence that a member would be scored with
C2_Witness ==
    /\ op = "check"
    /\ args.token \notin DOMAIN confusion_sets
    /\ Contains(args.masked_sentence, MASK)
    /\ pipe_calls = <<>>

\* C3 as stated: every check or correct of a sentence without __MASK__
\* raises the ValueError and does not call self.pipe.
C3_NoMaskRaises ==
    (op \in {"check", "correct"} /\ ~Contains(args.masked_sentence, MASK)) =>
        /\ exc = "ValueError"
        /\ pipe_calls = <<>>

\* C3 amended: a check or correct of a sentence without __MASK__ raises the
\* ValueError when the token is a key of the registry and returns without an
\* error when it is not; self.pipe is called in neither case.
C3_NoMaskRaisesForMembers ==
    (op \in {"check", "correct"} /\ ~Contains(args.masked_sentence, MASK)) =>
        /\ exc = IF args.token \in DOMAIN confusion_sets THEN "ValueError" ELSE "none"
        /\ pipe_calls = <<>>

\* correct of a member with a sentence that holds all of __MASK__ but its
\* last character
C3_Witness ==
    /\ op = "correct"
    /\ args.token \in DOMAIN confusion_sets
    /\ args.masked_sentence = SubSeq(MASK, 1, Len(MASK) - 1)
    /\ exc = "ValueError"

----------------------------------------------------------------------------
(* Properties of check_sentence *)

\* s.split(' ')
RECURSIVE Split(_)
Split(s) ==
    IF \A i \in 1..Len(s) : s[i] # " " THEN <<s>>
    ELSE LET k == CHOOSE i \in 1..Len(s) :
                     s[i] = " " /\ \A j \in 1..(i - 1) : s[j] # " "
         IN  <<SubSeq(s, 1, k - 1)>> \o Split(SubSeq(s, k + 1, Len(s)))

\* The k-th position, from the left, that holds a member of a confusion set
NthMember(k) ==
    LET members == MemberPositions(confusion_sets, args.tokens) IN
    CHOOSE i \in members : Cardinality({j \in members : j <= i}) = k

\* C8: the sentence handed to check for a member position i holds the
\* placeholder at position i only and tokens[j] at every other position j.
C8_SinglePositionMasked ==
    op = "check_sentence" =>
        \A k \in 1..Len(pipe_calls) :
            LET words == Split(pipe_calls[k].masked_sentence) IN
            /\ Len(words) = Len(args.tokens)
            /\ \A j \in 1..Len(words) :
                  words[j] = IF j = NthMember(k) THEN MASK ELSE args.tokens[j]

\* C9: check_sentence calls self.pipe once per member position, from left to
\* right, and for no other position, and returns the list of the answers in
\* that order.
C9_OneCallPerMember ==
    op = "check_sentence" =>
        /\ exc = "none"
        /\ Len(pipe_calls) = Cardinality(MemberPositions(confusion_sets, args.tokens))
        /\ \A k \in 1..Len(pipe_calls) :
              /\ pipe_calls[k].targets = confusion_sets[args.tokens[NthMember(k)]]
              /\ Split(pipe_calls[k].masked_sentence)[NthMember(k)] = MASK
        /\ ret.type = "list"
        /\ Len(ret.value) = Len(pipe_calls)
        /\ \A k \in 1..Len(pipe_calls) : ret.value[k] = pipe_calls[k].results

\* A token list with a member after a non-member: the output is shorter
\* than the input
C9_Witness ==
    /\ op = "check_sentence"
    /\ Len(args.tokens) >= 2
    /\ args.tokens[1] \notin DOMAIN confusion_sets
    /\ Len(ret.value) = Len(args.tokens) - 1

----------------------------------------------------------------------------
(* Properties of the registry construction *)

\* __init__ has run on the list args.confusion_sets
Built == op = "__init__" /\ exc = "none"

DeclaredGroups == args.confusion_sets

DistinctWords(group) == Range(CleanedSet(group))

\* Every declared group has at least two distinct trimmed non-empty words
AllGroupsValid ==
    \A g \in 1..Len(DeclaredGroups) : Cardinality(DistinctWords(DeclaredGroups[g])) >= 2

\* C6 as stated: every member of every declared group maps to the content
\* of that group.
C6_MembersMapToGroup ==
    (Built /\ AllGroupsValid) =>
        \A g \in 1..Len(DeclaredGroups) : \A w \in DistinctWords(DeclaredGroups[g]) :
            /\ w \in DOMAIN confusion_sets
            /\ Range(confusion_sets[w]) = DistinctWords(DeclaredGroups[g])

\* C6 amended: every member of every declared group maps to the cleaned
\* form of the last declared group that holds it.
C6_MembersMapToLastGroup ==
    (Built /\ AllGroupsValid) =>
        \A g \in 1..Len(DeclaredGroups) : \A w \in DistinctWords(DeclaredGroups[g]) :
            /\ w \in DOMAIN confusion_sets
            /\ (\A h \in (g + 1)..Len(DeclaredGroups) : w \notin DistinctWords(DeclaredGroups[h]))
                  => confusion_sets[w] = CleanedSet(DeclaredGroups[g])

\* Two valid groups share a word and differ in another
C6_Witness ==
    /\ Built
    /\ AllGroupsValid
    /\ Len(DeclaredGroups) = 2
    /\ DistinctWords(DeclaredGroups[1]) \cap DistinctWords(DeclaredGroups[2]) # {}
    /\ DistinctWords(DeclaredGroups[1]) # DistinctWords(DeclaredGroups[2])

\* C7: __init__ raises the ValueError, and builds no registry, whenever a
\* group has fewer than two distinct non-empty members after trimming.
C7_FewDistinctRaises ==
    (op = "__init__" /\ ~AllGroupsValid) =>
        /\ exc = "ValueError"
        /\ confusion_sets = <<>>

====
